---------------------------- MODULE Spec2Model ----------------------------
(***************************************************************************)
(* A model of the Tile class of src/source/tile.js: the lifecycle state,   *)
(* the buckets and atlas textures it owns, its mask buffers, its expiry    *)
(* bookkeeping, its registration with the cross-tile symbol index and its  *)
(* source-feature queries.  One action per method; a method that calls     *)
(* another one (loadVectorData -> unloadVectorData, setMask -> clearMask)  *)
(* is a single action whose effect is the composition.  commitPlacement    *)
(* alone is followed statement by statement, for the order of its calls.   *)
(***************************************************************************)
EXTENDS Integers, Sequences, FiniteSets, TLC

VARIABLES
    tile,       \* the Tile object: one record field per field of the class
    now,        \* Date.now()
    lastOp,     \* the method that ran last
    lastArg,    \* the argument it was called with
    prior,      \* setExpiryData's local `prior`, when it ran last; else null
    destroyed,  \* the objects that method called destroy() on
    created,    \* the objects that method constructed
    returned,   \* what that method returned
    placing,    \* the commitPlacement call in progress, or the last one
    crossTileSymbolIndex \* the layer ids registered for this tile's coord

vars == <<tile, now, lastOp, lastArg, prior, destroyed, created, returned,
          placing, crossTileSymbolIndex>>

---------------------------------------------------------------------------
(* Bounds of the model. *)

MaxTick == 3          \* the clock advances at most this many steps
MaxDestroy == 2       \* destroy() calls followed on one handle
MaxStaleCount == 1    \* expiredRequestCount followed in Spec
MaxCount == 3         \* expiredRequestCount followed in SpecExpiry
MaxBackoffCount == 34 \* expiredRequestCount followed in SpecBackoff

---------------------------------------------------------------------------
(* Program constants. *)

CLOCK_SKEW_RETRY_TIMEOUT == 30000

EXTENT == 8192

\* The clock moves in steps of half the clock-skew timeout, so that deltas
\* below, at and above CLOCK_SKEW_RETRY_TIMEOUT all occur.
TimeUnit == CLOCK_SKEW_RETRY_TIMEOUT \div 2

StartTime == 2 * TimeUnit

---------------------------------------------------------------------------
(* Values. *)

\* A JavaScript number-or-null: null, NaN or a number.
NullT == [tag |-> "null", v |-> 0]
NaNT == [tag |-> "nan", v |-> 0]
Num(n) == [tag |-> "num", v |-> n]

\* JavaScript truthiness of such a value: null, NaN and 0 are falsy.
Truthy(x) == x.tag = "num" /\ x.v # 0

\* An owned object with a destroy() method, or no object.
NoHandle == [present |-> FALSE, destroys |-> 0]
NewHandle == [present |-> TRUE, destroys |-> 0]
Destroy(h) == [h EXCEPT !.destroys = @ + 1]

TileStates == {"loading", "loaded", "reloading", "unloaded", "errored", "expired"}


SymbolLayers == {"sym", "sym2"}

\* The kind of bucket the deserializer builds for a layer.
BucketKind(id) == IF id \in SymbolLayers THEN "symbol" ELSE "fill"

\* The empty object {}.
EmptyMap == [id \in {} |-> TRUE]

\* A drawable-region mask: undefined, or an object whose keys are tile ids.
NoMask == [defined |-> FALSE, ids |-> {}]
Mask(ids) == [defined |-> TRUE, ids |-> ids]

\* The whole-tile sentinel {'0': true}.
WholeTile == Mask({0})

MaskIds == {0, 1}

Masks == {Mask(ids) : ids \in SUBSET MaskIds}

---------------------------------------------------------------------------
(* Inputs. *)

\* loadVectorData's data: null (an empty GeoJSON tile) or a worker result.
NullPayload ==
    [isNull |-> TRUE, rawTileData |-> 0, layers |-> {},
     iconAtlasImage |-> FALSE, glyphAtlasImage |-> FALSE]

Payloads ==
    {NullPayload} \cup
    [isNull : {FALSE}, rawTileData : {1}, layers : {{}, {"sym", "fill"}},
     iconAtlasImage : BOOLEAN, glyphAtlasImage : BOOLEAN]

\* Payloads that differ in their layers, for the symbol-bucket methods.
LayerPayloads ==
    {NullPayload} \cup
    [isNull : {FALSE}, rawTileData : {1},
     layers : {{"fill"}, {"sym", "fill"}, {"sym", "sym2", "fill"}},
     iconAtlasImage : {FALSE}, glyphAtlasImage : {FALSE}]

\* Payloads that differ in their raw bytes (0: the result carries none).
RawTiles == {1, 2}

QueryPayloads ==
    {NullPayload} \cup
    [isNull : {FALSE}, rawTileData : {0} \cup RawTiles, layers : {{}},
     iconAtlasImage : {FALSE}, glyphAtlasImage : {FALSE}]

\* The source layers encoded in a raw tile.
RawLayers(raw) == IF raw = 1 THEN {"roads"} ELSE {"roads", "water"}

\* tile.vtLayers: undefined, or the layers parsed from some raw bytes.
NoLayers == [from |-> 0, names |-> {}]

\* querySourceFeatures' params: undefined, or a source layer and a filter
\* (pass: whether the filter accepts the layer's features).
NoParams == [defined |-> FALSE, sourceLayer |-> "", pass |-> TRUE]

QueryParams ==
    {NoParams} \cup
    [defined : {TRUE}, sourceLayer : {"roads", "water"}, pass : BOOLEAN]

\* commitPlacement's arguments.
PlacementArgs ==
    [collisionIndex : {1, 2}, collisionFadeTimes : {1, 2}, angle : {0, 90}]

\* No commitPlacement call has started.
NoPlacement ==
    [active |-> FALSE, collisionIndex |-> 0, collisionFadeTimes |-> 0,
     angle |-> 0, pending |-> {}, current |-> "", updated |-> {},
     handed |-> FALSE]

---------------------------------------------------------------------------
(* The Tile. *)

\* constructor: buckets = {}, expirationTime = null, expiredRequestCount = 0,
\* state = 'loading'; every other field is undefined.
NewTile ==
    [state |-> "loading",
     buckets |-> EmptyMap,
     iconAtlasImage |-> FALSE,
     glyphAtlasImage |-> FALSE,
     iconAtlasTexture |-> NoHandle,
     glyphAtlasTexture |-> NoHandle,
     collisionBoxArray |-> "absent",
     featureIndex |-> "absent",
     rawTileData |-> 0,
     vtLayers |-> NoLayers,
     collisionIndex |-> 0,
     mask |-> NoMask,
     segments |-> NoHandle,
     maskedBoundsBuffer |-> NoHandle,
     maskedIndexBuffer |-> NoHandle,
     maskVertices |-> <<>>,
     maskIndices |-> <<>>,
     segmentVertexLength |-> 0,
     segmentPrimitiveLength |-> 0,
     expirationTime |-> NullT,
     expiredRequestCount |-> 0]

wasRequested(t) ==
    t.state = "errored" \/ t.state = "loaded" \/ t.state = "reloading"

\* hasData without the expired state.
hasDataNoExpired(t) ==
    t.state = "loaded" \/ t.state = "reloading"

hasData(t) ==
    t.state = "loaded" \/ t.state = "reloading" \/ t.state = "expired"

\* unloadVectorData: destroy every bucket and drop them, destroy the atlas
\* textures that are set (the fields keep their references), null the
\* collision boxes and the feature index, state = 'unloaded'.
unloadVectorData(t) ==
    [t EXCEPT
        !.buckets = EmptyMap,
        !.iconAtlasTexture = IF @.present THEN Destroy(@) ELSE @,
        !.glyphAtlasTexture = IF @.present THEN Destroy(@) ELSE @,
        !.collisionBoxArray = "absent",
        !.featureIndex = "absent",
        !.collisionIndex = 0,
        !.state = "unloaded"]

\* An object destroy() was called on.
Obj(kind, id) == [obj |-> kind, id |-> id]

\* The objects unloadVectorData calls destroy() on (lines 173-183).
unloadDestroys(t) ==
    {Obj("bucket", id) : id \in DOMAIN t.buckets}
    \cup {Obj(f, "") : f \in {g \in {"iconAtlasTexture", "glyphAtlasTexture"} : t[g].present}}

\* deserializeBucket(data.buckets, painter.style): one fresh bucket per layer.
deserializeBucket(layers) ==
    [id \in layers |->
        [kind |-> BucketKind(id), uploaded |-> FALSE, uploads |-> 0,
         opacities |-> 0, sortedAngle |-> -1]]

\* An ingest that returns for an empty tile before it sets the state.
ingestEarlyReturn(t, data) ==
    IF data.isNull
    THEN [t EXCEPT !.collisionBoxArray = "empty"]
    ELSE [t EXCEPT
            !.state = "loaded",
            !.rawTileData = IF data.rawTileData # 0 THEN data.rawTileData ELSE @,
            !.collisionBoxArray = "data",
            !.featureIndex = "present",
            !.collisionIndex = 0,
            !.buckets = deserializeBucket(data.layers),
            !.iconAtlasImage = IF data.iconAtlasImage THEN TRUE ELSE @,
            !.glyphAtlasImage = IF data.glyphAtlasImage THEN TRUE ELSE @]

\* loadVectorData after its optional unloadVectorData: t is the tile at line 136.
ingest(t, data) ==
    IF data.isNull
    THEN [t EXCEPT !.state = "loaded", !.collisionBoxArray = "empty"]
    ELSE [t EXCEPT
            !.state = "loaded",
            !.rawTileData = IF data.rawTileData # 0 THEN data.rawTileData ELSE @,
            !.collisionBoxArray = "data",
            !.featureIndex = "present",
            !.collisionIndex = 0,
            !.buckets = deserializeBucket(data.layers),
            !.iconAtlasImage = IF data.iconAtlasImage THEN TRUE ELSE @,
            !.glyphAtlasImage = IF data.glyphAtlasImage THEN TRUE ELSE @]

loadVectorData(t, data) ==
    ingest(IF hasData(t) THEN unloadVectorData(t) ELSE t, data)

loadDestroys(t) == IF hasData(t) THEN unloadDestroys(t) ELSE {}

\* The objects loadVectorData constructs: a CollisionBoxArray, and with
\* data the buckets.
loadCreates(data) ==
    {Obj("collisionBoxArray", "")} \cup {Obj("bucket", id) : id \in data.layers}

\* One bucket in upload's loop: bucket.upload(gl) unless already uploaded.
\* uploads counts the calls of bucket.upload on this bucket.
uploadBucketAlways(b) ==
    [b EXCEPT !.uploads = @ + 1, !.uploaded = TRUE]

uploadBucket(b) ==
    IF b.uploaded THEN b
    ELSE [b EXCEPT !.uploads = @ + 1, !.uploaded = TRUE]

\* upload: upload every bucket not yet uploaded; turn each atlas image that
\* is set into a new texture and null the image.
upload(t) ==
    [t EXCEPT
        !.buckets = [id \in DOMAIN @ |-> uploadBucket(@[id])],
        !.iconAtlasTexture = IF t.iconAtlasImage THEN NewHandle ELSE @,
        !.iconAtlasImage = FALSE,
        !.glyphAtlasTexture = IF t.glyphAtlasImage THEN NewHandle ELSE @,
        !.glyphAtlasImage = FALSE]

\* The textures upload constructs.
uploadCreates(t) ==
    (IF t.iconAtlasImage THEN {Obj("iconAtlasTexture", "")} ELSE {})
    \cup (IF t.glyphAtlasImage THEN {Obj("glyphAtlasTexture", "")} ELSE {})

\* A clearMask that forgets the index buffer.
clearMaskKeepsIndexBuffer(t) ==
    [t EXCEPT
        !.segments = NoHandle,
        !.segmentVertexLength = 0,
        !.segmentPrimitiveLength = 0,
        !.maskedBoundsBuffer = NoHandle,
        !.maskVertices = <<>>]

\* clearMask: destroy and delete the segments and the two mask buffers.
clearMask(t) ==
    [t EXCEPT
        !.segments = NoHandle,
        !.segmentVertexLength = 0,
        !.segmentPrimitiveLength = 0,
        !.maskedBoundsBuffer = NoHandle,
        !.maskVertices = <<>>,
        !.maskedIndexBuffer = NoHandle,
        !.maskIndices = <<>>]

\* The objects clearMask calls destroy() on.
clearMaskDestroys(t) ==
    {Obj(f, "") : f \in {g \in {"segments", "maskedBoundsBuffer", "maskedIndexBuffer"} : t[g].present}}

\* util.deepEqual on two masks (undefined or objects with true-valued keys).
deepEqual(a, b) == a.defined = b.defined /\ a.ids = b.ids

\* Object.keys(mask): integer-like keys come out in ascending order.
RECURSIVE Keys(_)
Keys(ids) ==
    IF ids = {} THEN <<>>
    ELSE LET m == CHOOSE x \in ids : \A y \in ids : x <= y
         IN  <<m>> \o Keys(ids \ {m})

\* TileCoord.fromID: the zoom is the id's low five bits, then x and y.
fromID(id) ==
    LET z == id % 32
        dim == 2 ^ z
        xy == (id - z) \div 32
        x == xy % dim
    IN  [z |-> z, x |-> x, y |-> ((xy - x) \div dim) % dim]

\* The four corner vertices setMask emits for one mask id (lines 358-369).
maskCorners(id) ==
    LET c == fromID(id)
        vertexExtent == EXTENT \div (2 ^ c.z)
        tlx == c.x * vertexExtent
        tly == c.y * vertexExtent
        brx == tlx + vertexExtent
        bry == tly + vertexExtent
    IN  << <<tlx, tly, tlx, tly>>, <<brx, tly, brx, tly>>,
           <<tlx, bry, tlx, bry>>, <<brx, bry, brx, bry>> >>

\* Index triples that ignore the segment offset.
maskTrianglesFromZero(offset) ==
    << <<0, 1, 2>>, <<1, 2, 3>> >>

\* The two index triples setMask emits at a segment offset (lines 371-375).
maskTriangles(offset) ==
    << <<offset, offset + 1, offset + 2>>, <<offset + 1, offset + 2, offset + 3>> >>

\* The loop of lines 357-379 over the keys, from an accumulator
\* [vertices, indices, vertexLength, primitiveLength].
RECURSIVE tessellate(_, _)
tessellate(keys, acc) ==
    IF keys = <<>> THEN acc
    ELSE tessellate(Tail(keys),
            [vertices |-> acc.vertices \o maskCorners(Head(keys)),
             indices |-> acc.indices \o maskTriangles(acc.vertexLength),
             vertexLength |-> acc.vertexLength + 4,
             primitiveLength |-> acc.primitiveLength + 2])

\* The check of line 339 left out: every call rebuilds.
sameMaskNever(a, b) == FALSE

\* Line 339: the mask is the same as the current one.
sameMask(a, b) == deepEqual(a, b)

\* setMask: nothing when the mask is deep-equal to the current one; otherwise
\* store it, clearMask(), and unless it is the whole-tile sentinel build the
\* segment and the two buffers.
setMask(t, mask) ==
    IF sameMask(t.mask, mask) THEN t
    ELSE LET cleared == clearMask([t EXCEPT !.mask = mask])
             r == tessellate(Keys(mask.ids),
                     [vertices |-> <<>>, indices |-> <<>>,
                      vertexLength |-> 0, primitiveLength |-> 0])
         IN  IF deepEqual(mask, WholeTile) THEN cleared
             ELSE [cleared EXCEPT
                     !.segments = NewHandle,
                     !.segmentVertexLength = r.vertexLength,
                     !.segmentPrimitiveLength = r.primitiveLength,
                     !.maskedBoundsBuffer = NewHandle,
                     !.maskVertices = r.vertices,
                     !.maskedIndexBuffer = NewHandle,
                     !.maskIndices = r.indices]

setMaskDestroys(t, mask) ==
    IF sameMask(t.mask, mask) THEN {} ELSE clearMaskDestroys(t)

\* The objects setMask constructs (lines 351, 381, 382).
setMaskCreates(t, mask) ==
    IF sameMask(t.mask, mask) \/ deepEqual(mask, WholeTile) THEN {}
    ELSE {Obj(f, "") : f \in {"segments", "maskedBoundsBuffer", "maskedIndexBuffer"}}

---------------------------------------------------------------------------
(* Expiry. *)

\* setExpiryData's data.  cacheControl: absent, or a header whose parsed
\* max-age is a number of seconds or missing.  expires: absent, or a date
\* string whose getTime() is a number or NaN.
NoHeader == [present |-> FALSE, value |-> NullT]
Header(x) == [present |-> TRUE, value |-> x]

\* The candidate expirationTime of lines 392-397.
candidate(t, data, clock) ==
    IF data.cacheControl.present
    THEN IF Truthy(data.cacheControl.value)
         THEN Num(clock + data.cacheControl.value.v * 1000)
         ELSE t.expirationTime
    ELSE IF data.expires.present
         THEN data.expires.value
         ELSE t.expirationTime

\* The decision without the case of an expiration date going backwards.
isExpiredNoRegression(c, prior0, clock) ==
    IF c.v > clock THEN FALSE
    ELSE IF ~Truthy(prior0) THEN TRUE
    ELSE (c.v - prior0.v) = 0

\* Lines 401-427: whether the response counts as expired.  c is the
\* candidate (truthy), prior0 the expirationTime before the call.
isExpired(c, prior0, clock) ==
    IF c.v > clock THEN FALSE
    ELSE IF ~Truthy(prior0) THEN TRUE
    ELSE IF c.v < prior0.v THEN TRUE
    ELSE (c.v - prior0.v) = 0

Max(a, b) == IF a >= b THEN a ELSE b
Min(a, b) == IF a <= b THEN a ELSE b

\* The interpolation without its minimum timeout.
interpolatedNoMinimum(c, prior0, clock) ==
    IF c.v <= clock /\ Truthy(prior0) /\ c.v > prior0.v
    THEN Num(clock + (c.v - prior0.v))
    ELSE c

\* Lines 413-424: the expirationTime interpolated when the candidate is in
\* the past and later than the prior one.
interpolated(c, prior0, clock) ==
    IF c.v <= clock /\ Truthy(prior0) /\ c.v > prior0.v
    THEN Num(clock + Max(c.v - prior0.v, CLOCK_SKEW_RETRY_TIMEOUT))
    ELSE c

setExpiryData(t, data, clock) ==
    LET prior0 == t.expirationTime
        c == candidate(t, data, clock)
    IN  IF ~Truthy(c) THEN [t EXCEPT !.expirationTime = c]
        ELSE IF isExpired(c, prior0, clock)
             THEN [t EXCEPT !.expirationTime = c,
                            !.expiredRequestCount = @ + 1,
                            !.state = "expired"]
             ELSE [t EXCEPT !.expirationTime = interpolated(c, prior0, clock),
                            !.expiredRequestCount = 0]

\* 2 * v on 32-bit signed integers: the result wraps into [-2^31, 2^31).
Double32(v) ==
    IF v >= 2 ^ 30 THEN ((v - 2 ^ 30) * 2 - 2 ^ 30) - 2 ^ 30
    ELSE IF v < -(2 ^ 30) THEN ((v + 2 ^ 30) * 2 + 2 ^ 30) + 2 ^ 30
    ELSE 2 * v

RECURSIVE Doubled(_, _)
Doubled(x, k) == IF k = 0 THEN x ELSE Doubled(Double32(x), k - 1)

\* x << k as JavaScript evaluates it: the count is taken modulo 32.
ShiftLeft(x, k) == Doubled(x, k % 32)

\* The largest setTimeout delay, Math.pow(2, 31) - 1.
MaxTimerDelay == 2147483647

\* A returned number v * scale, kept as its two factors: 1000 * (1 << 31)
\* is beyond the 32-bit integers TLC computes with.
Scaled(v, scale) == [tag |-> "num", v |-> v, scale |-> scale]
Undefined == [tag |-> "undefined", v |-> 0, scale |-> 1]

\* getExpiryTimeout: undefined without an expirationTime.
getExpiryTimeout(t, clock) ==
    IF Truthy(t.expirationTime)
    THEN IF t.expiredRequestCount # 0
         THEN Scaled(ShiftLeft(1, Min(t.expiredRequestCount - 1, 31)), 1000)
         ELSE Scaled(Min(t.expirationTime.v - clock, MaxTimerDelay), 1)
    ELSE Undefined

---------------------------------------------------------------------------
(* Symbol buckets: the cross-tile index and placement. *)

symbolBuckets(t) == {id \in DOMAIN t.buckets : t.buckets[id].kind = "symbol"}

\* CrossTileSymbolIndex, for this tile's coord and sourceMaxZoom: the set of
\* layer ids that have an entry.
addTileLayer(index, id) == index \cup {id}
removeTileLayer(index, id) == index \ {id}

RECURSIVE addAll(_, _)
addAll(index, ids) ==
    IF ids = {} THEN index
    ELSE LET id == CHOOSE x \in ids : TRUE
         IN  addAll(addTileLayer(index, id), ids \ {id})

RECURSIVE removeAll(_, _)
removeAll(index, ids) ==
    IF ids = {} THEN index
    ELSE LET id == CHOOSE x \in ids : TRUE
         IN  removeAll(removeTileLayer(index, id), ids \ {id})

\* added / removed: one call of the index per symbol bucket the tile has now.
added(t, index) == addAll(index, symbolBuckets(t))
removed(t, index) == removeAll(index, symbolBuckets(t))

\* commitPlacement's loop leaves at once.
loopDoneAtOnce(p) == p.current = ""

\* commitPlacement's loop (lines 226-232) has visited every bucket.
loopDone(p) == p.pending = {} /\ p.current = ""

---------------------------------------------------------------------------
(* querySourceFeatures. *)

\* new vt.VectorTile(new Protobuf(rawTileData)).layers
parseLayers(raw) == [from |-> raw, names |-> RawLayers(raw)]

\* Line 304: the layer the features are read from, "" when there is none.
queryLayer(vtLayers, params) ==
    IF "_geojsonTileLayer" \in vtLayers.names THEN "_geojsonTileLayer"
    ELSE IF params.sourceLayer \in vtLayers.names THEN params.sourceLayer
    ELSE ""

\* The tile after querySourceFeatures: the parsed layers are cached.
querySourceFeatures(t, params) ==
    IF t.rawTileData = 0 THEN t
    ELSE IF t.vtLayers = NoLayers
         THEN [t EXCEPT !.vtLayers = parseLayers(t.rawTileData)]
         ELSE t

\* The features it pushes onto result, each with the bytes it was decoded from.
queryFeatures(t, params) ==
    LET after == querySourceFeatures(t, params)
        layer == queryLayer(after.vtLayers, params)
    IN  IF t.rawTileData = 0 \/ layer = "" \/ ~params.pass THEN {}
        ELSE {[from |-> after.vtLayers.from, layer |-> layer]}

Features(fs) == [tag |-> "features", features |-> fs]

---------------------------------------------------------------------------
(* Inputs of setExpiryData. *)

MaxAgeSeconds == TimeUnit \div 1000

ExpiresTimes == {k * TimeUnit : k \in 0 .. (MaxTick + 3)}

ExpiryData ==
    [cacheControl : {NoHeader, Header(NullT), Header(Num(0)), Header(Num(MaxAgeSeconds))},
     expires : {NoHeader, Header(NaNT)} \cup {Header(Num(x)) : x \in ExpiresTimes}]


\* Two responses, for the specification that follows the tile's resources:
\* one already expired on arrival, one fresh.
StaleResponse == [cacheControl |-> NoHeader, expires |-> Header(Num(StartTime - TimeUnit))]
FreshResponse == [cacheControl |-> Header(Num(MaxAgeSeconds)), expires |-> NoHeader]

---------------------------------------------------------------------------
(* Actions: one per method of Tile, and the two transitions the tile's    *)
(* owner makes by assigning tile.state.                                    *)

Init ==
    /\ tile = NewTile
    /\ now = StartTime
    /\ lastOp = "constructor"
    /\ lastArg = Undefined
    /\ prior = NullT
    /\ destroyed = {}
    /\ created = {}
    /\ returned = Undefined
    /\ placing = NoPlacement
    /\ crossTileSymbolIndex = {}

\* The model follows at most MaxDestroy destroy() calls on one texture.
destroysBounded(t) ==
    /\ t.iconAtlasTexture.destroys < MaxDestroy
    /\ t.glyphAtlasTexture.destroys < MaxDestroy

LoadVectorData(data) ==
    /\ hasData(tile) => destroysBounded(tile)
    /\ tile' = loadVectorData(tile, data)
    /\ lastOp' = "loadVectorData"
    /\ lastArg' = data
    /\ prior' = NullT
    /\ destroyed' = loadDestroys(tile)
    /\ created' = loadCreates(data)
    /\ returned' = Undefined
    /\ UNCHANGED now
    /\ UNCHANGED <<placing, crossTileSymbolIndex>>

UnloadVectorData ==
    /\ destroysBounded(tile)
    /\ tile' = unloadVectorData(tile)
    /\ lastOp' = "unloadVectorData"
    /\ lastArg' = Undefined
    /\ prior' = NullT
    /\ destroyed' = unloadDestroys(tile)
    /\ created' = {}
    /\ returned' = Undefined
    /\ UNCHANGED now
    /\ UNCHANGED <<placing, crossTileSymbolIndex>>

Upload ==
    /\ tile' = upload(tile)
    /\ lastOp' = "upload"
    /\ lastArg' = Undefined
    /\ prior' = NullT
    /\ destroyed' = {}
    /\ created' = uploadCreates(tile)
    /\ returned' = Undefined
    /\ UNCHANGED now
    /\ UNCHANGED <<placing, crossTileSymbolIndex>>

ClearMask ==
    /\ tile' = clearMask(tile)
    /\ lastOp' = "clearMask"
    /\ lastArg' = Undefined
    /\ prior' = NullT
    /\ destroyed' = clearMaskDestroys(tile)
    /\ created' = {}
    /\ returned' = Undefined
    /\ UNCHANGED now
    /\ UNCHANGED <<placing, crossTileSymbolIndex>>

SetMask(mask) ==
    /\ tile' = setMask(tile, mask)
    /\ lastOp' = "setMask"
    /\ lastArg' = mask
    /\ prior' = NullT
    /\ destroyed' = setMaskDestroys(tile, mask)
    /\ created' = setMaskCreates(tile, mask)
    /\ returned' = Undefined
    /\ UNCHANGED now
    /\ UNCHANGED <<placing, crossTileSymbolIndex>>

\* bound: the model follows expiredRequestCount up to it.
SetExpiryData(data, bound) ==
    /\ setExpiryData(tile, data, now).expiredRequestCount <= bound
    /\ tile' = setExpiryData(tile, data, now)
    /\ lastOp' = "setExpiryData"
    /\ lastArg' = data
    /\ prior' = tile.expirationTime
    /\ destroyed' = {}
    /\ created' = {}
    /\ returned' = Undefined
    /\ UNCHANGED now
    /\ UNCHANGED <<placing, crossTileSymbolIndex>>

GetExpiryTimeout ==
    /\ returned' = getExpiryTimeout(tile, now)
    /\ lastOp' = "getExpiryTimeout"
    /\ lastArg' = Undefined
    /\ prior' = NullT
    /\ destroyed' = {}
    /\ created' = {}
    /\ UNCHANGED <<tile, now>>
    /\ UNCHANGED <<placing, crossTileSymbolIndex>>

\* Date.now() moves on between two calls.
Tick ==
    /\ now < StartTime + MaxTick * TimeUnit
    /\ now' = now + TimeUnit
    /\ UNCHANGED <<tile, lastOp, lastArg, prior, destroyed, created, returned>>
    /\ UNCHANGED <<placing, crossTileSymbolIndex>>

\* The owner starts a reload of a tile that has data: state = 'reloading'.
BeginReload ==
    /\ tile.state \in {"loaded", "expired"}
    /\ tile' = [tile EXCEPT !.state = "reloading"]
    /\ lastOp' = "beginReload"
    /\ lastArg' = Undefined
    /\ prior' = NullT
    /\ destroyed' = {}
    /\ created' = {}
    /\ returned' = Undefined
    /\ UNCHANGED now
    /\ UNCHANGED <<placing, crossTileSymbolIndex>>

\* The loader reports that the load in flight failed: state = 'errored'.
LoadFailed ==
    /\ tile.state \in {"loading", "reloading", "expired"}
    /\ tile' = [tile EXCEPT !.state = "errored"]
    /\ lastOp' = "loadFailed"
    /\ lastArg' = Undefined
    /\ prior' = NullT
    /\ destroyed' = {}
    /\ created' = {}
    /\ returned' = Undefined
    /\ UNCHANGED now
    /\ UNCHANGED <<placing, crossTileSymbolIndex>>

\* querySourceFeatures(result, params) on an empty result array.
QuerySourceFeatures(params) ==
    /\ tile' = querySourceFeatures(tile, params)
    /\ lastOp' = "querySourceFeatures"
    /\ lastArg' = params
    /\ prior' = NullT
    /\ destroyed' = {}
    /\ created' = IF tile.rawTileData # 0 /\ tile.vtLayers = NoLayers
                  THEN {Obj("vtLayers", "")} ELSE {}
    /\ returned' = Features(queryFeatures(tile, params))
    /\ UNCHANGED <<now, placing, crossTileSymbolIndex>>

Added ==
    /\ crossTileSymbolIndex' = added(tile, crossTileSymbolIndex)
    /\ lastOp' = "added"
    /\ lastArg' = Undefined
    /\ prior' = NullT
    /\ destroyed' = {}
    /\ created' = {}
    /\ returned' = Undefined
    /\ UNCHANGED <<tile, now, placing>>

Removed ==
    /\ crossTileSymbolIndex' = removed(tile, crossTileSymbolIndex)
    /\ lastOp' = "removed"
    /\ lastArg' = Undefined
    /\ prior' = NullT
    /\ destroyed' = {}
    /\ created' = {}
    /\ returned' = Undefined
    /\ UNCHANGED <<tile, now, placing>>

\* commitPlacement is entered: its loop has every bucket still to visit.
CommitPlacement(args) ==
    /\ ~placing.active
    /\ placing' = [active |-> TRUE,
                   collisionIndex |-> args.collisionIndex,
                   collisionFadeTimes |-> args.collisionFadeTimes,
                   angle |-> args.angle,
                   pending |-> DOMAIN tile.buckets,
                   current |-> "",
                   updated |-> {},
                   handed |-> FALSE]
    /\ lastOp' = "commitPlacement"
    /\ lastArg' = args
    /\ prior' = NullT
    /\ destroyed' = {}
    /\ created' = {}
    /\ returned' = Undefined
    /\ UNCHANGED <<tile, now, crossTileSymbolIndex>>

\* The loop takes the next bucket (lines 227-229): updateOpacities on a
\* symbol bucket, nothing on any other.
UpdateOpacities(id) ==
    /\ placing.active
    /\ placing.current = ""
    /\ id \in placing.pending
    /\ IF tile.buckets[id].kind = "symbol"
       THEN /\ tile' = [tile EXCEPT !.buckets[id].opacities = placing.collisionFadeTimes]
            /\ placing' = [placing EXCEPT !.pending = @ \ {id}, !.current = id]
       ELSE /\ tile' = tile
            /\ placing' = [placing EXCEPT !.pending = @ \ {id}]
    /\ UNCHANGED <<now, lastOp, lastArg, prior, destroyed, created, returned,
                   crossTileSymbolIndex>>

\* Line 230: bucket.sortFeatures(angle) on the bucket just updated.
SortFeatures ==
    /\ placing.active
    /\ placing.current # ""
    /\ tile' = [tile EXCEPT !.buckets[placing.current].sortedAngle = placing.angle]
    /\ placing' = [placing EXCEPT !.current = "", !.updated = @ \cup {placing.current}]
    /\ UNCHANGED <<now, lastOp, lastArg, prior, destroyed, created, returned,
                   crossTileSymbolIndex>>

\* Lines 236-238: after the loop, featureIndex.setCollisionIndex if there is
\* a feature index; the call returns.
SetCollisionIndex ==
    /\ placing.active
    /\ loopDone(placing)
    /\ IF tile.featureIndex = "present"
       THEN /\ tile' = [tile EXCEPT !.collisionIndex = placing.collisionIndex]
            /\ placing' = [placing EXCEPT !.active = FALSE, !.handed = TRUE]
       ELSE /\ tile' = tile
            /\ placing' = [placing EXCEPT !.active = FALSE]
    /\ UNCHANGED <<now, lastOp, lastArg, prior, destroyed, created, returned,
                   crossTileSymbolIndex>>

\* The tile's data, GPU resources and lifecycle.
Next ==
    \/ \E data \in Payloads : LoadVectorData(data)
    \/ UnloadVectorData
    \/ Upload
    \/ ClearMask
    \/ \E mask \in Masks : SetMask(mask)
    \/ \E data \in {StaleResponse, FreshResponse} : SetExpiryData(data, MaxStaleCount)
    \/ BeginReload
    \/ LoadFailed

Spec == Init /\ [][Next]_vars

\* The tile's expiry bookkeeping under a moving clock.
NextExpiry ==
    \/ \E data \in ExpiryData : SetExpiryData(data, MaxCount)
    \/ GetExpiryTimeout
    \/ Tick
    \/ LoadVectorData(NullPayload)
    \/ UnloadVectorData
    \/ BeginReload
    \/ LoadFailed

SpecExpiry == Init /\ [][NextExpiry]_vars

\* The backoff of a server that keeps serving expired tiles.
NextBackoff ==
    \/ \E data \in ExpiryData : SetExpiryData(data, MaxBackoffCount)
    \/ GetExpiryTimeout

SpecBackoff == Init /\ [][NextBackoff]_vars

\* Placement commits on a tile that is loaded and reloaded.  No other method
\* runs while a commitPlacement call is in progress.
NextPlacement ==
    \/ \E args \in PlacementArgs : CommitPlacement(args)
    \/ \E id \in DOMAIN tile.buckets : UpdateOpacities(id)
    \/ SortFeatures
    \/ SetCollisionIndex
    \/ ~placing.active /\ \E data \in LayerPayloads : LoadVectorData(data)
    \/ ~placing.active /\ UnloadVectorData

SpecPlacement == Init /\ [][NextPlacement]_vars

\* The tile's registration with the cross-tile symbol index.
NextSymbols ==
    \/ Added
    \/ Removed
    \/ \E data \in LayerPayloads : LoadVectorData(data)
    \/ UnloadVectorData

SpecSymbols == Init /\ [][NextSymbols]_vars

\* Source-feature queries on a tile that is loaded and reloaded.
NextQuery ==
    \/ \E params \in QueryParams : QuerySourceFeatures(params)
    \/ \E data \in QueryPayloads : LoadVectorData(data)
    \/ UnloadVectorData

SpecQuery == Init /\ [][NextQuery]_vars

---------------------------------------------------------------------------
(* Properties. *)

\* C1: in every reachable state hasData() is true exactly when state is
\* loaded, reloading or expired, and wasRequested() is true exactly when
\* state is errored, loaded or reloading.
C1_Predicates ==
    /\ hasData(tile) <=> tile.state \in {"loaded", "reloading", "expired"}
    /\ wasRequested(tile) <=> tile.state \in {"errored", "loaded", "reloading"}

\* An expired tile: the one state with data that was not "requested".
C1_Witness ==
    tile.state = "expired" /\ hasData(tile) /\ ~wasRequested(tile)

\* C2 as stated: whichever operation is applied to a tile whose state is
\* loading, the state afterwards is loading, loaded or errored.
C2_FromLoading ==
    [][tile.state = "loading" => tile'.state \in {"loading", "loaded", "errored"}]_vars

\* C2, amended: from loading, loadVectorData ends in loaded, unloadVectorData
\* in unloaded, setExpiryData in loading or expired, a reported load failure
\* in errored; no operation ends in reloading.
C2_FromLoadingAmended ==
    [][tile.state = "loading" =>
        /\ lastOp' = "loadVectorData" => tile'.state = "loaded"
        /\ lastOp' = "unloadVectorData" => tile'.state = "unloaded"
        /\ lastOp' = "setExpiryData" => tile'.state \in {"loading", "expired"}
        /\ lastOp' = "loadFailed" => tile'.state = "errored"
        /\ tile'.state # "reloading"]_vars

\* A tile that never had data and is expired: setExpiryData ran on a tile
\* that was loading.
C2_Witness ==
    /\ tile.state = "expired"
    /\ lastOp = "setExpiryData"
    /\ tile.collisionBoxArray = "absent"
    /\ tile.expiredRequestCount = 1
    /\ tile.rawTileData = 0

\* C3: whenever state is unloaded, loading or errored, the buckets map is
\* empty and the feature index is absent.
C3_NoDataWithoutData ==
    tile.state \in {"unloaded", "loading", "errored"} =>
        tile.buckets = EmptyMap /\ tile.featureIndex = "absent"

\* C4: loadVectorData with null data, from any state, ends with state
\* loaded, no buckets and an empty collision-box array.
C4_NullIngest ==
    (lastOp = "loadVectorData" /\ lastArg = NullPayload) =>
        /\ tile.state = "loaded"
        /\ tile.buckets = EmptyMap
        /\ tile.collisionBoxArray = "empty"

\* The four GPU handles a tile holds.
GpuFields == {"iconAtlasTexture", "glyphAtlasTexture", "maskedBoundsBuffer", "maskedIndexBuffer"}

\* C5: an unloadVectorData that directly follows an unloadVectorData calls
\* destroy() on nothing and changes no field of the tile.
C5_SecondUnloadIsNoOp ==
    [][(lastOp = "unloadVectorData" /\ lastOp' = "unloadVectorData") =>
            destroyed' = {} /\ tile' = tile]_vars

\* C6: no GPU handle of the tile has destroy() called on it more than once.
C6_NoDoubleFree ==
    \A f \in GpuFields : tile[f].destroys <= 1

\* C7: right after unloadVectorData the tile references no bucket and no
\* live texture, mask buffer or segment vector.
C7_NoLeakAfterUnload ==
    lastOp = "unloadVectorData" =>
        /\ tile.buckets = EmptyMap
        /\ \A f \in GpuFields \cup {"segments"} :
              tile[f].present => tile[f].destroys >= 1

\* A step that is a call of setExpiryData (Tick leaves lastOp as it is).
SetExpiryDataStep == lastOp' = "setExpiryData" /\ now' = now

\* C8 as stated: a setExpiryData whose candidate T1 exceeds the prior
\* expirationTime T0 by less than CLOCK_SKEW_RETRY_TIMEOUT leaves
\* expirationTime = now + 30000 and a state other than expired.
C8_Interpolation ==
    [][(/\ SetExpiryDataStep
        /\ tile.expirationTime.tag = "num"
        /\ candidate(tile, lastArg', now).tag = "num"
        /\ 0 < candidate(tile, lastArg', now).v - tile.expirationTime.v
        /\ candidate(tile, lastArg', now).v - tile.expirationTime.v < CLOCK_SKEW_RETRY_TIMEOUT)
       => /\ tile'.expirationTime = Num(now + CLOCK_SKEW_RETRY_TIMEOUT)
          /\ tile'.state # "expired"]_vars

\* The same case, with T0 set (not zero) and T1 not in the future.
C8_Case(t0, data, clock) ==
    LET c == candidate([expirationTime |-> t0], data, clock)
    IN  /\ Truthy(t0)
        /\ c.tag = "num"
        /\ 0 < c.v - t0.v
        /\ c.v - t0.v < CLOCK_SKEW_RETRY_TIMEOUT
        /\ c.v <= clock

\* C8, amended: when T0 is set (not zero), 0 < T1 - T0 < 30000 and T1 <= now,
\* setExpiryData leaves expirationTime = now + 30000, resets
\* expiredRequestCount to 0 and leaves the state as it was.
C8_InterpolationAmended ==
    [][(SetExpiryDataStep /\ C8_Case(tile.expirationTime, lastArg', now)) =>
            /\ tile'.expirationTime = Num(now + CLOCK_SKEW_RETRY_TIMEOUT)
            /\ tile'.expiredRequestCount = 0
            /\ tile'.state = tile.state]_vars

\* The interpolation has run on an expired tile, which stays expired.
C8_Witness ==
    /\ lastOp = "setExpiryData"
    /\ C8_Case(prior, lastArg, now)
    /\ tile.expirationTime = Num(now + CLOCK_SKEW_RETRY_TIMEOUT)
    /\ tile.state = "expired"

\* C9 as stated: a setExpiryData whose candidate T1 is earlier than the
\* prior expirationTime T0 makes the tile expired and adds one to
\* expiredRequestCount.
C9_Regression ==
    [][(/\ SetExpiryDataStep
        /\ tile.expirationTime.tag = "num"
        /\ candidate(tile, lastArg', now).tag = "num"
        /\ candidate(tile, lastArg', now).v < tile.expirationTime.v)
       => /\ tile'.state = "expired"
          /\ tile'.expiredRequestCount = tile.expiredRequestCount + 1]_vars

\* The same case, with T1 not zero and not in the future.
C9_Case(t0, data, clock) ==
    LET c == candidate([expirationTime |-> t0], data, clock)
    IN  /\ t0.tag = "num"
        /\ Truthy(c)
        /\ c.v < t0.v
        /\ c.v <= clock

\* C9, amended: when T1 < T0, T1 is not zero and T1 <= now, setExpiryData
\* makes the tile expired and adds one to expiredRequestCount.
C9_RegressionAmended ==
    [][(SetExpiryDataStep /\ C9_Case(tile.expirationTime, lastArg', now)) =>
            /\ tile'.state = "expired"
            /\ tile'.expiredRequestCount = tile.expiredRequestCount + 1]_vars

\* An expiration date has gone backwards for a tile that was not expired.
C9_Witness ==
    /\ lastOp = "setExpiryData"
    /\ C9_Case(prior, lastArg, now)
    /\ tile.state = "expired"
    /\ tile.expiredRequestCount = 1
    /\ tile.expirationTime.v < prior.v

\* C10: with an expirationTime set and expiredRequestCount = n > 0,
\* getExpiryTimeout returns 1000 * 2^min(n-1, 31), a positive number.  2^31
\* is stated by its half, 2^30.
C10_Backoff ==
    (/\ lastOp = "getExpiryTimeout"
     /\ Truthy(tile.expirationTime)
     /\ tile.expiredRequestCount > 0)
    => /\ returned.tag = "num"
       /\ returned.scale = 1000
       /\ returned.v > 0
       /\ tile.expiredRequestCount <= 31 => returned.v = 2 ^ (tile.expiredRequestCount - 1)
       /\ tile.expiredRequestCount >= 32 => (returned.v % 2 = 0 /\ returned.v \div 2 = 2 ^ 30)

\* The three objects setMask builds and clearMask releases.
MaskFields == {"segments", "maskedBoundsBuffer", "maskedIndexBuffer"}

\* C11: a setMask call whose mask is deep-equal to the tile's current mask
\* constructs nothing, destroys nothing and leaves every field of the tile,
\* mask, segments, maskedBoundsBuffer and maskedIndexBuffer among them, as
\* it was.
C11_SameMaskIsNoOp ==
    [][(lastOp' = "setMask" /\ deepEqual(tile.mask, lastArg')) =>
            /\ created' = {}
            /\ destroyed' = {}
            /\ tile' = tile]_vars

\* setMask has returned at line 339 on a tile that holds mask buffers.
C11_Witness ==
    /\ lastOp = "setMask"
    /\ deepEqual(tile.mask, lastArg)
    /\ tile.segments.present
    /\ tile.maskedIndexBuffer.present
    /\ created = {}
    /\ destroyed = {}

\* C12: whenever the tile's mask is the whole-tile sentinel, segments,
\* maskedBoundsBuffer and maskedIndexBuffer are absent; and the setMask call
\* that sets the sentinel calls destroy() on each of them the tile held.
C12_SentinelHoldsNothing ==
    [][/\ deepEqual(tile'.mask, WholeTile) =>
            \A f \in MaskFields : ~tile'[f].present
       /\ (/\ lastOp' = "setMask"
           /\ deepEqual(lastArg', WholeTile)
           /\ ~deepEqual(tile.mask, WholeTile)) =>
            \A f \in MaskFields : tile[f].present => Obj(f, "") \in destroyed']_vars

\* The sentinel has replaced a mask whose three objects were destroyed.
C12_Witness ==
    /\ lastOp = "setMask"
    /\ deepEqual(tile.mask, WholeTile)
    /\ destroyed = {Obj(f, "") : f \in MaskFields}
    /\ \A f \in MaskFields : ~tile[f].present

\* C13: a setMask call that gets to the tessellation (the mask is neither the
\* current one nor the sentinel) with a mask of n ids builds the segment and
\* the two buffers, with 4n vertices and 2n index triples, the segment's
\* vertexLength 4n and primitiveLength 2n, and for the i-th id (from 0) the
\* triples (4i, 4i+1, 4i+2) and (4i+1, 4i+2, 4i+3); with n = 0 the segment
\* and two empty buffers.
C13_Tessellation ==
    [][(/\ lastOp' = "setMask"
        /\ ~deepEqual(tile.mask, lastArg')
        /\ ~deepEqual(lastArg', WholeTile)) =>
            LET n == Cardinality(lastArg'.ids)
                t == tile'
            IN  /\ \A f \in MaskFields : t[f] = NewHandle /\ Obj(f, "") \in created'
                /\ Len(t.maskVertices) = 4 * n
                /\ Len(t.maskIndices) = 2 * n
                /\ t.segmentVertexLength = 4 * n
                /\ t.segmentPrimitiveLength = 2 * n
                /\ \A i \in 0 .. (n - 1) :
                      /\ t.maskIndices[2 * i + 1] = <<4 * i, 4 * i + 1, 4 * i + 2>>
                      /\ t.maskIndices[2 * i + 2] = <<4 * i + 1, 4 * i + 2, 4 * i + 3>>]_vars

\* A mask of two ids has been tessellated.
C13_Witness ==
    /\ lastOp = "setMask"
    /\ lastArg = Mask({0, 1})
    /\ created = {Obj(f, "") : f \in MaskFields}
    /\ Len(tile.maskVertices) = 8
    /\ tile.maskIndices[4] = <<5, 6, 7>>

\* C14: bucket.upload is never invoked twice on one bucket; after an upload()
\* every bucket has had exactly one bucket.upload, both atlas images are
\* null, and the call has constructed one texture for each atlas image that
\* was set; an upload() that directly follows an upload() constructs nothing
\* and changes nothing.
C14_UploadOnce ==
    [][/\ \A id \in DOMAIN tile'.buckets : tile'.buckets[id].uploads <= 1
       /\ lastOp' = "upload" =>
            /\ \A id \in DOMAIN tile'.buckets :
                  tile'.buckets[id].uploaded /\ tile'.buckets[id].uploads = 1
            /\ ~tile'.iconAtlasImage
            /\ ~tile'.glyphAtlasImage
            /\ Obj("iconAtlasTexture", "") \in created' <=> tile.iconAtlasImage
            /\ Obj("glyphAtlasTexture", "") \in created' <=> tile.glyphAtlasImage
            /\ lastOp = "upload" => (created' = {} /\ tile' = tile)]_vars

\* upload() has run on a tile whose buckets and atlas texture were uploaded
\* before: nothing was constructed.
C14_Witness ==
    /\ lastOp = "upload"
    /\ created = {}
    /\ tile.buckets # EmptyMap
    /\ tile.iconAtlasTexture = NewHandle
    /\ tile.glyphAtlasTexture = NewHandle

\* C15: in a commitPlacement call the collision index is handed to the
\* feature index only when updateOpacities and sortFeatures have been applied
\* to every symbol bucket of the tile; buckets of other kinds are never
\* touched; and without a feature index nothing is handed over.
C15_CommitOrder ==
    /\ \A id \in DOMAIN tile.buckets \ symbolBuckets(tile) :
          tile.buckets[id].opacities = 0 /\ tile.buckets[id].sortedAngle = -1
    /\ lastOp = "commitPlacement" =>
          /\ placing.updated \subseteq symbolBuckets(tile)
          /\ placing.handed =>
                /\ tile.featureIndex = "present"
                /\ tile.collisionIndex = placing.collisionIndex
                /\ \A id \in symbolBuckets(tile) :
                      /\ id \in placing.updated
                      /\ tile.buckets[id].opacities = placing.collisionFadeTimes
                      /\ tile.buckets[id].sortedAngle = placing.angle
          /\ tile.featureIndex = "absent" =>
                ~placing.handed /\ tile.collisionIndex = 0

\* A commit has finished on a tile with two symbol buckets and a fill bucket.
C15_Witness ==
    /\ lastOp = "commitPlacement"
    /\ ~placing.active
    /\ placing.handed
    /\ placing.updated = {"sym", "sym2"}
    /\ "fill" \in DOMAIN tile.buckets
    /\ tile.collisionIndex = placing.collisionIndex

\* The metadata yields a candidate expiration: a max-age, or without a
\* cache-control header an expires date that parses.
HasCandidate(data) ==
    \/ data.cacheControl.present /\ Truthy(data.cacheControl.value)
    \/ ~data.cacheControl.present /\ data.expires.present /\ data.expires.value.tag = "num"

\* C16: for a prior expirationTime P (absent when null), a candidate T and
\* the time now, setExpiryData judges the response expired exactly when
\* T <= now and (P is absent or T < P or T = P); expired, it adds one to
\* expiredRequestCount and sets state expired; not expired, it resets
\* expiredRequestCount to 0; and when T <= now and T > P it sets
\* expirationTime = now + max(T - P, 30000).
C16_DecisionTable ==
    [][(SetExpiryDataStep /\ HasCandidate(lastArg')) =>
            LET P == tile.expirationTime
                T == candidate(tile, lastArg', now).v
                expired == T <= now /\ (P.tag # "num" \/ T < P.v \/ T = P.v)
            IN  /\ expired =>
                      /\ tile'.expiredRequestCount = tile.expiredRequestCount + 1
                      /\ tile'.state = "expired"
                /\ ~expired => tile'.expiredRequestCount = 0
                /\ (T <= now /\ P.tag = "num" /\ T > P.v) =>
                      tile'.expirationTime =
                          Num(now + Max(T - P.v, CLOCK_SKEW_RETRY_TIMEOUT))]_vars

\* C17: right after a setMask call whose mask is not the whole-tile sentinel,
\* segments, maskedBoundsBuffer and maskedIndexBuffer are allocated and hold
\* the tessellation of the tile's mask.
C17_MaskResources ==
    (lastOp = "setMask" /\ ~deepEqual(lastArg, WholeTile)) =>
        /\ deepEqual(tile.mask, lastArg)
        /\ \A f \in MaskFields : tile[f].present
        /\ Len(tile.maskVertices) = 4 * Cardinality(tile.mask.ids)
        /\ Len(tile.maskIndices) = 2 * Cardinality(tile.mask.ids)

\* C18: right after removed(index) the cross-tile symbol index holds no
\* entry for this tile.
C18_RegistrationBalanced ==
    lastOp = "removed" => crossTileSymbolIndex = {}

\* C19: the cached parsed layers are those of the tile's current raw bytes,
\* and the features querySourceFeatures appends are decoded from them.
C19_QueryCurrentPayload ==
    /\ tile.vtLayers # NoLayers => tile.vtLayers.from = tile.rawTileData
    /\ lastOp = "querySourceFeatures" =>
          \A f \in returned.features : f.from = tile.rawTileData

\* The metadata yields no candidate expiration: no max-age, and no expires
\* date that is read and parses.
NoCandidate(data) ==
    \/ data.cacheControl.present /\ data.cacheControl.value = NullT
    \/ ~data.cacheControl.present /\ ~data.expires.present
    \/ ~data.cacheControl.present /\ data.expires.value = NaNT

\* C20: a setExpiryData call whose metadata yields no candidate expiration
\* leaves expirationTime, expiredRequestCount and state unchanged.
C20_NoCandidateNoChange ==
    [][(SetExpiryDataStep /\ NoCandidate(lastArg')) =>
            /\ tile'.expirationTime = tile.expirationTime
            /\ tile'.expiredRequestCount = tile.expiredRequestCount
            /\ tile'.state = tile.state]_vars

============================================================================
